---- MODULE Spec2Model ----
(***************************************************************************)
(* Model of the crawl-and-change-detection engine of the books crawler:    *)
(*   crawler/spider.py    Spider.fetch_page (semaphore + status retry)     *)
(*   crawler/parser.py    parse_list_page, parse_book_page, helpers        *)
(*   crawler/main.py      process_book_page, run_crawler                   *)
(*   scheduler/tasks.py   log_changes, check_book_update,                  *)
(*                        run_daily_change_detection                       *)
(*                                                                         *)
(* A step of the model is one segment of a coroutine between two awaits    *)
(* (asyncio runs such a segment without interleaving).  A URL is the       *)
(* sequence of its path segments below https://books.toscrape.com/.       *)
(***************************************************************************)
EXTENDS Integers, Sequences, FiniteSets, Bags, TLC

\* Python's None, for text values, for URLs and for a parsed Book
None == "None"
NoUrl == << >>
NoBook == [null |-> TRUE]

(***************************************************************************)
(* Bounds of the model.                                                    *)
(***************************************************************************)
\* Spider(db, concurrency): the admission limit the run is built with
\* (the default of the code is 20; the model runs a smaller pool).
Concurrency == 2
\* listing-page fetch counters saturate at this value
CountCap == 2

(***************************************************************************)
(* Program constants.                                                      *)
(***************************************************************************)
RETRYABLE_STATUS_CODES == {500, 502, 503, 504}
\* stop=stop_after_attempt(5)
StopAfterAttempt == 5
\* httpx.AsyncHTTPTransport(retries=3): connection failures retried per request
TransportRetries == 3

(***************************************************************************)
(* urllib.parse.urljoin on path-segment URLs: the last segment of the base *)
(* is dropped, the relative path appended, ".." segments resolved.  An     *)
(* empty/absent relative URL yields the base.                              *)
(***************************************************************************)
Front(s) == SubSeq(s, 1, Len(s) - 1)

RECURSIVE RemoveDots(_, _)
RemoveDots(stack, rest) ==
    IF rest = << >> THEN stack
    ELSE IF Head(rest) = ".."
         THEN RemoveDots(IF stack = << >> THEN << >> ELSE Front(stack), Tail(rest))
         ELSE RemoveDots(Append(stack, Head(rest)), Tail(rest))

urljoin(base, rel) ==
    IF rel = NoUrl THEN base
    ELSE RemoveDots(IF base = << >> THEN << >> ELSE Front(base), rel)

(***************************************************************************)
(* The sites the model crawls.  A site gives, for a requested URL, the     *)
(* final URL after redirects and the body served there.                    *)
(*   "linear": index.html (2 items, next) -> catalogue/page-2.html, which  *)
(*             redirects to catalogue/category/page-2.html (1 new item,    *)
(*             1 item already listed, no next).                            *)
(*   "cyclic": as "linear", but page 2 carries a next link that leads      *)
(*             back to catalogue/page-2.html.                              *)
(*   "reissued": as "linear", but the pages of b1 and b3 now carry one     *)
(*             and the same new upc, "u4".                                 *)
(***************************************************************************)
SiteNames == {"linear", "cyclic", "reissued"}

IndexUrl == <<"index.html">>
Page2Url == <<"catalogue", "page-2.html">>
Page2Final == <<"catalogue", "category", "page-2.html">>
B1 == <<"catalogue", "b1", "index.html">>
B2 == <<"catalogue", "b2", "index.html">>
B3 == <<"catalogue", "b3", "index.html">>
\* a book that was on the site in an earlier run and is gone now
BGone == <<"catalogue", "gone", "index.html">>

ListUrls == {IndexUrl, Page2Url}
ItemUrls == {B1, B2, B3, BGone}

ErrorBody == [kind |-> "error"]

ListBody(s, url) ==
    IF url = IndexUrl
    THEN [kind |-> "list",
          links |-> <<<<"catalogue", "b1", "index.html">>,
                      <<"catalogue", "b2", "index.html">>>>,
          next |-> <<"catalogue", "page-2.html">>]
    ELSE [kind |-> "list",
          links |-> <<<<"..", "b3", "index.html">>, <<"..", "b1", "index.html">>>>,
          next |-> IF s = "cyclic" THEN <<"..", "page-2.html">> ELSE NoUrl]

\* The item pages now on the site.  b2's page has lost its <h1> title.  A price
\* cell is a currency glyph and an amount: "GBP" is the pound sign, "A_GBP" the
\* two characters (A-circumflex, pound sign) that _clean_price strips; a
\* missing table row is [row |-> FALSE].
ItemBody(url) ==
    [kind |-> "item",
     upc |-> IF url = B1 THEN "u1" ELSE IF url = B2 THEN "u2" ELSE "u3",
     title |-> IF url = B2 THEN None ELSE "name",
     description |-> "text",
     category |-> "Poetry",
     price_incl |-> [row |-> TRUE, glyph |-> IF url = B3 THEN "GBP" ELSE "A_GBP",
                     amount |-> IF url = B1 THEN 12 ELSE 10],
     price_excl |-> [row |-> TRUE, glyph |-> IF url = B3 THEN "GBP" ELSE "A_GBP",
                     amount |-> 10],
     availability |-> "In stock",
     num_reviews |-> 0,
     star_class |-> "star-rating Three",
     img_src |-> <<"..", "..", "media", "img.jpg">>]

FinalUrl(s, url) == IF url = Page2Url THEN Page2Final ELSE url

\* whether the site has a page at url, and the body a 200 response carries
OnSite(s, url) == url \in ListUrls \cup {B1, B2, B3}

\* Sites for two runs in a row, laid out as "linear" with every item page
\* complete (b2 has its title): "settled" serves the upcs the items always
\* had, on "renumbered" the page of b1 carries the new upc "u4".
RepeatSites == {"settled", "renumbered"}

Served(s, url) ==
    IF url \in ListUrls THEN ListBody(s, url)
    ELSE IF s = "reissued" /\ url \in {B1, B3}
         THEN [ItemBody(url) EXCEPT !.upc = "u4"]
    ELSE IF s \in RepeatSites
         THEN [ItemBody(url) EXCEPT
                  !.title = "name",
                  !.upc = IF s = "renumbered" /\ url = B1 THEN "u4" ELSE @]
         ELSE ItemBody(url)

(***************************************************************************)
(* crawler/parser.py                                                       *)
(***************************************************************************)
\* mutant: the name is hashed as well
_get_fingerprint_with_name(data) ==
    <<"sha256", data.price_incl_tax, data.price_excl_tax, data.availability,
      data.name>>

\* sha256 over the canonical JSON of the three fields, taken as injective
_get_fingerprint(data) ==
    <<"sha256", data.price_incl_tax, data.price_excl_tax, data.availability>>

\* float(price_str.replace(<A_GBP>, "")): 0 on text that float() rejects
\* (ValueError); on None the AttributeError of None.replace is not caught
\* here and reaches the caller
AttributeError == -1
_clean_price(price_str) ==
    IF ~price_str.row THEN AttributeError
    ELSE IF price_str.glyph \in {"A_GBP", ""} /\ price_str.amount >= 0
         THEN price_str.amount
         ELSE 0

\* the first of One..Five (in dict order) contained in the class string;
\* on None the TypeError of "word in None" reaches the caller
TypeError == -2
_clean_rating(rating_class) ==
    IF rating_class = None THEN TypeError
    ELSE IF rating_class = "star-rating One" THEN 1
    ELSE IF rating_class = "star-rating Two" THEN 2
    ELSE IF rating_class = "star-rating Three" THEN 3
    ELSE IF rating_class = "star-rating Four" THEN 4
    ELSE IF rating_class = "star-rating Five" THEN 5
    ELSE 0

\* (book_urls, next_page_url) of a listing body; a body without product pods
\* and without li.next gives ([], None)
parse_list_page(body) ==
    IF body.kind = "list"
    THEN [book_urls |-> body.links, next_page_url |-> body.next]
    ELSE [book_urls |-> << >>, next_page_url |-> NoUrl]

\* Book(**data) or NoBook: any exception while reading the page or validating
\* the model is caught and turned into None (NoBook)
parse_book_page(body, source_url) ==
    IF body.kind # "item" THEN NoBook
    ELSE IF body.title = None THEN NoBook               \* None.strip()
    ELSE IF _clean_price(body.price_incl) = AttributeError THEN NoBook
    ELSE IF _clean_price(body.price_excl) = AttributeError THEN NoBook
    ELSE IF _clean_rating(body.star_class) = TypeError THEN NoBook
    ELSE IF body.upc = None \/ body.category = None \/ body.availability = None
         THEN NoBook                                    \* pydantic validation
    ELSE LET data == [upc |-> body.upc,
                      name |-> body.title,
                      description |-> body.description,
                      category |-> body.category,
                      price_incl_tax |-> _clean_price(body.price_incl),
                      price_excl_tax |-> _clean_price(body.price_excl),
                      availability |-> body.availability,
                      num_reviews |-> body.num_reviews,
                      rating |-> _clean_rating(body.star_class),
                      image_url |-> urljoin(source_url, body.img_src),
                      source_url |-> source_url,
                      crawl_status |-> "successful"]
         IN [upc |-> data.upc,
             name |-> data.name,
             description |-> data.description,
             category |-> data.category,
             price_incl_tax |-> data.price_incl_tax,
             price_excl_tax |-> data.price_excl_tax,
             availability |-> data.availability,
             num_reviews |-> data.num_reviews,
             rating |-> data.rating,
             image_url |-> data.image_url,
             source_url |-> data.source_url,
             crawl_status |-> data.crawl_status,
             data_fingerprint |-> _get_fingerprint(data)]

(***************************************************************************)
(* The store before the run: Records an earlier run parsed from the pages  *)
(* the site served then.  Variants of an earlier page: "same" as now,      *)
(* "avail" (another availability text, so another fingerprint), "both"     *)
(* (another availability text and another price), "name" (another title,   *)
(* same fingerprint).                                                      *)
(***************************************************************************)
EarlierBody(url, variant) ==
    LET base == IF url = BGone
                THEN [ItemBody(B3) EXCEPT !.upc = "u9"]
                ELSE [ItemBody(url) EXCEPT !.title = "name"]
    IN IF variant = "avail" THEN [base EXCEPT !.availability = "In stock (10 available)"]
       ELSE IF variant = "both"
       THEN [base EXCEPT !.availability = "In stock (10 available)",
                         !.price_incl = [row |-> TRUE, glyph |-> "A_GBP", amount |-> 15]]
       ELSE IF variant = "name" THEN [base EXCEPT !.title = "old name"]
       ELSE base

StoredBook(url, variant) == parse_book_page(EarlierBody(url, variant), url)

\* a store as an earlier full crawl of the site it now crawls again left it
ResumedStore(s) == {parse_book_page(Served(s, B1), B1)}

Stores ==
    { {},
      {StoredBook(B1, "both"), StoredBook(B2, "same")},
      {StoredBook(B1, "avail"), StoredBook(B3, "name"), StoredBook(BGone, "same")} }

(***************************************************************************)
(* Persistence gateway (MongoDB collections books and change_log).  The    *)
(* unique indexes on upc and on source_url exist once                      *)
(* setup_database_indexes has run on the database.  Each operator on books *)
(* gives the collection after the call and whether the call raised         *)
(* DuplicateKeyError.                                                      *)
(***************************************************************************)
\* db.books.update_one({"upc": upc}, {"$set": book_data}, upsert=True)
UpsertByUpc(bk, book_data) ==
    LET hit == {d \in bk : d.upc = book_data.upc}
        rest == bk \ hit
        dup == \E d \in rest : d.source_url = book_data.source_url
    IN IF dup THEN [raised |-> TRUE, books |-> bk]
       ELSE [raised |-> FALSE, books |-> rest \cup {book_data}]

\* mutant: the insert replaces the collection
InsertOneReplacing(bk, book_data, unique) ==
    [raised |-> FALSE, books |-> {book_data}]

\* db.books.insert_one(book_data); unique: the unique indexes exist
InsertOne(bk, book_data, unique) ==
    LET dup == \E d \in bk : d.upc = book_data.upc \/ d.source_url = book_data.source_url
    IN IF unique /\ dup THEN [raised |-> TRUE, books |-> bk]
       ELSE [raised |-> FALSE, books |-> bk \cup {book_data}]

\* mutant: the $set leaves data_fingerprint out
UpdateFieldsKeepFingerprint(bk, new_book) ==
    {IF d.upc = new_book.upc
     THEN [d EXCEPT !.price_incl_tax = new_book.price_incl_tax,
                    !.price_excl_tax = new_book.price_excl_tax,
                    !.availability = new_book.availability]
     ELSE d : d \in bk}

\* db.books.update_one({"upc": new_book.upc}, {"$set": {<the content fields>}})
UpdateFields(bk, new_book) ==
    {IF d.upc = new_book.upc
     THEN [d EXCEPT !.name = new_book.name,
                    !.description = new_book.description,
                    !.category = new_book.category,
                    !.price_incl_tax = new_book.price_incl_tax,
                    !.price_excl_tax = new_book.price_excl_tax,
                    !.availability = new_book.availability,
                    !.num_reviews = new_book.num_reviews,
                    !.rating = new_book.rating,
                    !.image_url = new_book.image_url,
                    !.data_fingerprint = new_book.data_fingerprint,
                    !.crawl_status = new_book.crawl_status]
     ELSE d : d \in bk}

(***************************************************************************)
(* scheduler/tasks.py log_changes: the ChangeLogEntry list of a comparison *)
(***************************************************************************)
\* mutant: availability is not compared
FieldsWithoutAvailability ==
    <<"name", "description", "category", "price_incl_tax", "price_excl_tax",
      "num_reviews", "rating", "image_url">>

ComparableFields ==
    <<"name", "description", "category", "price_incl_tax", "price_excl_tax",
      "availability", "num_reviews", "rating", "image_url">>

\* str(v): the text of a value, taken as injective on the values of a field
str(v) == <<"str", v>>

\* mutant: the entry carries the upc of the stored document
check_field_old_upc(field_name, old_data, new_data) ==
    IF str(old_data[field_name]) # str(new_data[field_name])
    THEN {[book_upc |-> old_data.upc, field_changed |-> field_name,
           old_value |-> str(old_data[field_name]),
           new_value |-> str(new_data[field_name])]}
    ELSE {}

\* check_field: one entry when str(old_val) != str(new_val)
check_field(field_name, old_data, new_data) ==
    IF str(old_data[field_name]) # str(new_data[field_name])
    THEN {[book_upc |-> new_data.upc, field_changed |-> field_name,
           old_value |-> str(old_data[field_name]),
           new_value |-> str(new_data[field_name])]}
    ELSE {}

Changes(old_data, new_data) ==
    UNION {check_field(ComparableFields[i], old_data, new_data) :
             i \in 1..Len(ComparableFields)}

\* mutant: the entry names an ordinary field
AddedEntryAsFieldChange(book) ==
    [book_upc |-> book.upc, field_changed |-> "name",
     old_value |-> "non-existent", new_value |-> "added"]

\* the "new book" entry of run_daily_change_detection
AddedEntry(book) ==
    [book_upc |-> book.upc, field_changed |-> "book_status",
     old_value |-> "non-existent", new_value |-> "added"]

\* mutant: a batch that stops after its first document
InsertManyFirstOnly(log, entries) ==
    IF entries = {} THEN log
    ELSE log (+) SetToBag({CHOOSE e \in entries : TRUE})

\* db.change_log.insert_many(log_models) / insert_one: one call, all documents
InsertMany(log, entries) == log (+) SetToBag(entries)

\* mutant: every difference in a compared field counts as a change
AnyFieldChanged(new_book, old_book) == Changes(old_book, new_book) # {}

\* "if new_book.data_fingerprint != old_book["data_fingerprint"]"
FingerprintChanged(new_book, old_book) ==
    new_book.data_fingerprint # old_book.data_fingerprint

(***************************************************************************)
(* State                                                                   *)
(***************************************************************************)
Main == <<"main">>
Callers == {Main} \cup ItemUrls

VARIABLES
    mode,             \* "crawl": run_crawler, "detect": run_daily_change_detection
    site,             \* the site served during the run
    books,            \* db.books
    change_log,       \* db.change_log (a bag of entries)
    unique_indexes,   \* whether the unique indexes on db.books exist
    pc,               \* the entrypoint's position
    crawl_queue,      \* spider.crawl_queue / crawl_queue
    page_url,         \* the listing page or new book being fetched by the entrypoint
    book_urls,        \* spider.book_urls_to_crawl / all_current_book_urls
    existing_urls,    \* run_crawler: source URLs read from the store
    known_books,      \* change detection: the documents read from the store
    new_book_urls,    \* change detection: new URLs still to be processed
    num_new_books,
    num_updated_books,
    emails,           \* calls of send_alert_email: how each of them ended
    tpc,              \* per item task: its position
    tres,             \* per item task: what it returned
    tbook,            \* per item task / entrypoint: the Book parsed from the response
    semaphore,        \* spider.semaphore._value
    fst,              \* per caller: position inside fetch_page
    furl,             \* per caller: the URL passed to fetch_page
    attempt_number,   \* per caller: attempts started by this call (tenacity)
    last_status,      \* per caller: status of the attempt that ended last
    response,         \* per caller: the response fetch_page returned
    connect_retries,  \* per caller: connections the transport retried in this attempt
    list_fetches,     \* history: fetch_page calls per listing URL (saturating)
    list_failed,      \* history: listing URLs whose fetch raised or was not a 200
    fetched,          \* history: item URLs passed to fetch_page
    outcome,          \* history, per item URL: how its fetch and extraction ended
    store_error,      \* history, per item URL: the store call that raised, if any
    logged,           \* history, per item URL: the entries its processing persisted
    book_writes,      \* history, per item URL: documents of db.books it wrote
    parser_in,        \* the parser function called on its own, and its argument
    parser_out,       \* what that call returned
    run_no,           \* the number of the run of the workflow on this store
    fetch_outcomes,   \* side by side: the outcome of the k-th listing fetch
    spider_crawl_queue,     \* side by side, run_crawler: spider.crawl_queue
    book_urls_to_crawl,     \* side by side, run_crawler: spider.book_urls_to_crawl
    crawl_pages,            \* side by side, run_crawler: the pages popped
    detect_crawl_queue,     \* side by side, change detection: crawl_queue
    all_current_book_urls,  \* side by side, change detection: all_current_book_urls
    detect_pages            \* side by side, change detection: the pages popped

store_vars == <<books, change_log, unique_indexes>>
main_vars == <<pc, crawl_queue, page_url, book_urls, existing_urls, known_books,
               new_book_urls, num_new_books, num_updated_books, emails>>
task_vars == <<tpc, tres, tbook>>
fetch_vars == <<semaphore, fst, furl, attempt_number, last_status, response,
               connect_retries>>
item_hist == <<outcome, store_error, logged, book_writes>>
hist_vars == <<list_fetches, list_failed, fetched, item_hist>>
parser_vars == <<parser_in, parser_out>>
twin_vars == <<fetch_outcomes, spider_crawl_queue, book_urls_to_crawl, crawl_pages,
               detect_crawl_queue, all_current_book_urls, detect_pages>>
vars == <<mode, site, store_vars, main_vars, task_vars, fetch_vars, hist_vars,
          parser_vars, run_no, twin_vars>>

NoResponse == [status_code |-> 0, url |-> NoUrl]
NoCall == [fn |-> "none"]

\* a run begins: the locals of the entrypoint, the Spider and its tasks
RunStart ==
    /\ pc = "start"
    /\ crawl_queue = << >>
    /\ page_url = NoUrl
    /\ book_urls = {}
    /\ existing_urls = {}
    /\ known_books = {}
    /\ new_book_urls = {}
    /\ num_new_books = 0
    /\ num_updated_books = 0
    /\ emails = << >>
    /\ tpc = [u \in ItemUrls |-> "none"]
    /\ tres = [u \in ItemUrls |-> "none"]
    /\ tbook = [c \in Callers |-> NoBook]
    /\ semaphore = Concurrency
    /\ fst = [c \in Callers |-> "idle"]
    /\ furl = [c \in Callers |-> NoUrl]
    /\ attempt_number = [c \in Callers |-> 0]
    /\ last_status = [c \in Callers |-> 0]
    /\ response = [c \in Callers |-> NoResponse]
    /\ connect_retries = [c \in Callers |-> 0]
    /\ list_fetches = [u \in {} |-> 0]
    /\ list_failed = {}
    /\ fetched = {}
    /\ outcome = [u \in ItemUrls |-> "none"]
    /\ store_error = [u \in ItemUrls |-> "none"]
    /\ logged = [u \in ItemUrls |-> EmptyBag]
    /\ book_writes = [u \in ItemUrls |-> 0]
    /\ parser_in = NoCall
    /\ parser_out = NoCall
    /\ fetch_outcomes = << >>
    /\ spider_crawl_queue = <<IndexUrl>>
    /\ book_urls_to_crawl = {}
    /\ crawl_pages = << >>
    /\ detect_crawl_queue = <<IndexUrl>>
    /\ all_current_book_urls = {}
    /\ detect_pages = << >>

Init ==
    /\ mode \in {"crawl", "detect"}
    /\ site \in SiteNames
    /\ books \in Stores \cup
                (IF mode = "crawl" /\ site = "reissued"
                 THEN {ResumedStore(site)} ELSE {})
    /\ change_log = EmptyBag
    /\ unique_indexes \in (IF books = {} THEN BOOLEAN ELSE {TRUE})
    /\ run_no = 1
    /\ RunStart

(***************************************************************************)
(* crawler/spider.py Spider.fetch_page                                     *)
(***************************************************************************)
\* a status of 0 stands for an attempt that ended without a response
\* (httpx.ConnectError / TimeoutException after the transport's own retries)
ServedStatuses == {0, 200, 404, 503}

\* the caller enters fetch_page(url): tenacity starts attempt 1
CallFetch(c, url) ==
    /\ fst' = [fst EXCEPT ![c] = "acquire"]
    /\ furl' = [furl EXCEPT ![c] = url]
    /\ attempt_number' = [attempt_number EXCEPT ![c] = 1]
    /\ last_status' = [last_status EXCEPT ![c] = 0]
    /\ response' = [response EXCEPT ![c] = NoResponse]
    /\ connect_retries' = [connect_retries EXCEPT ![c] = 0]
    /\ UNCHANGED semaphore

\* the caller has taken the result of fetch_page
FetchTaken(c) ==
    /\ fst' = [fst EXCEPT ![c] = "idle"]
    /\ furl' = [furl EXCEPT ![c] = NoUrl]
    /\ attempt_number' = [attempt_number EXCEPT ![c] = 0]
    /\ last_status' = [last_status EXCEPT ![c] = 0]
    /\ response' = [response EXCEPT ![c] = NoResponse]
    /\ connect_retries' = [connect_retries EXCEPT ![c] = 0]
    /\ UNCHANGED semaphore

\* response.text: the page of the site, or the body of an error response
Text(c) ==
    IF response[c].status_code = 200 THEN Served(site, furl[c]) ELSE ErrorBody

\* "async with self.semaphore": entered when a slot is free
Acquire(c) ==
    /\ fst[c] = "acquire"
    /\ semaphore > 0
    /\ semaphore' = semaphore - 1
    /\ fst' = [fst EXCEPT ![c] = "get"]
    /\ UNCHANGED <<run_no, twin_vars, parser_vars, mode, site, store_vars, main_vars, task_vars, hist_vars,
                   furl, attempt_number, last_status, response, connect_retries>>

\* the transport could not connect and tries again, inside the same
\* "await self.client.get(url)"
TransportRetry(c) ==
    /\ fst[c] = "get"
    /\ connect_retries[c] < TransportRetries
    /\ connect_retries' = [connect_retries EXCEPT ![c] = @ + 1]
    /\ UNCHANGED <<run_no, twin_vars, parser_vars, mode, site, store_vars, main_vars, task_vars, hist_vars,
                   semaphore, fst, furl, attempt_number, last_status, response>>

\* mutant: raise_for_status() is called on every response
RaisesForStatusAlways(status_code) == status_code >= 400

\* "if response.status_code in RETRYABLE_STATUS_CODES: response.raise_for_status()"
RaisesForStatus(status_code) == status_code \in RETRYABLE_STATUS_CODES

\* mutant: the stop condition is off by one
TenacityStopsEarly(is_status_error, attempt) ==
    is_status_error /\ attempt < StopAfterAttempt - 1

\* mutant: every exception is retried
TenacityRetriesAnyException(is_status_error, attempt) ==
    attempt < StopAfterAttempt

\* retry=retry_if_exception_type(HTTPStatusError), stop=stop_after_attempt(5)
TenacityRetries(is_status_error, attempt) ==
    is_status_error /\ attempt < StopAfterAttempt

\* mutant: the slot is given back twice
ReleaseTwice(value) == value + 2

\* mutant: the exit of "async with" gives nothing back
ReleaseNothing(value) == value

\* the slots the exit of "async with" gives back
Release(value) == value + 1

\* mutant: the slot is kept while the caller waits in backoff
GetResponseKeepsSlotInBackoff(c, status) ==
    /\ fst[c] = "get"
    /\ status = 200 => OnSite(site, furl[c])
    /\ semaphore' = IF status # 0 /\ TenacityRetries(RaisesForStatus(status), attempt_number[c])
                     THEN semaphore ELSE Release(semaphore)
    /\ last_status' = [last_status EXCEPT ![c] = status]
    /\ IF status # 0 /\ ~RaisesForStatus(status)
       THEN /\ fst' = [fst EXCEPT ![c] = "returned"]
            /\ response' = [response EXCEPT ![c] =
                   IF status = 200
                   THEN [status_code |-> 200, url |-> FinalUrl(site, furl[c])]
                   ELSE [status_code |-> status, url |-> furl[c]]]
       ELSE /\ fst' = [fst EXCEPT ![c] =
                   IF TenacityRetries(status # 0, attempt_number[c])
                   THEN "backoff" ELSE "raised"]
            /\ UNCHANGED response
    /\ connect_retries' = IF status = 0 THEN connect_retries
                          ELSE [connect_retries EXCEPT ![c] = 0]
    /\ UNCHANGED <<run_no, twin_vars, parser_vars, mode, site, store_vars, main_vars, task_vars, hist_vars,
                   furl, attempt_number>>

\* "await self.client.get(url)" ends with status (0: transport error); the
\* slot is released on every way out of the with block
GetResponse(c, status) ==
    /\ fst[c] = "get"
    /\ status = 200 => OnSite(site, furl[c])
    /\ semaphore' = Release(semaphore)
    /\ last_status' = [last_status EXCEPT ![c] = status]
    /\ IF status # 0 /\ ~RaisesForStatus(status)
       THEN /\ fst' = [fst EXCEPT ![c] = "returned"]
            /\ response' = [response EXCEPT ![c] =
                   IF status = 200
                   THEN [status_code |-> 200, url |-> FinalUrl(site, furl[c])]
                   ELSE [status_code |-> status, url |-> furl[c]]]
       ELSE /\ fst' = [fst EXCEPT ![c] =
                   IF TenacityRetries(status # 0, attempt_number[c])
                   THEN "backoff" ELSE "raised"]
            /\ UNCHANGED response
    /\ connect_retries' = IF status = 0 THEN connect_retries
                          ELSE [connect_retries EXCEPT ![c] = 0]
    /\ UNCHANGED <<run_no, twin_vars, parser_vars, mode, site, store_vars, main_vars, task_vars, hist_vars,
                   furl, attempt_number>>

\* wait_exponential has elapsed: tenacity calls the function again
BackoffDone(c) ==
    /\ fst[c] = "backoff"
    /\ fst' = [fst EXCEPT ![c] = "acquire"]
    /\ attempt_number' = [attempt_number EXCEPT ![c] = @ + 1]
    /\ UNCHANGED <<run_no, twin_vars, parser_vars, mode, site, store_vars, main_vars, task_vars, hist_vars,
                   semaphore, furl, last_status, response, connect_retries>>

(***************************************************************************)
(* Discovery: the while loop of run_crawler (crawler/main.py) and of       *)
(* run_daily_change_detection (scheduler/tasks.py)                         *)
(***************************************************************************)
Bump(counts, url) ==
    IF url \in DOMAIN counts
    THEN [counts EXCEPT ![url] = IF @ < CountCap THEN @ + 1 ELSE @]
    ELSE counts @@ (url :> 1)

SourceUrls(docs) == {d.source_url : d \in docs}

\* run_crawler up to the loop: setup_database_indexes creates the unique
\* indexes, the resume set is read, the root is queued
CrawlStart ==
    /\ pc = "start" /\ mode = "crawl"
    /\ unique_indexes' = TRUE
    /\ existing_urls' = SourceUrls(books)
    /\ crawl_queue' = Append(crawl_queue, IndexUrl)
    /\ pc' = "discover"
    /\ UNCHANGED <<run_no, twin_vars, parser_vars, mode, site, books, change_log, task_vars, fetch_vars, hist_vars, page_url,
                   book_urls, known_books, new_book_urls, num_new_books,
                   num_updated_books, emails>>

\* run_daily_change_detection up to the loop: the root is queued
DetectStart ==
    /\ pc = "start" /\ mode = "detect"
    /\ crawl_queue' = Append(crawl_queue, IndexUrl)
    /\ pc' = "discover"
    /\ UNCHANGED <<run_no, twin_vars, parser_vars, mode, site, store_vars, task_vars, fetch_vars, hist_vars, page_url,
                   book_urls, existing_urls, known_books, new_book_urls, num_new_books,
                   num_updated_books, emails>>

\* "while not crawl_queue.empty(): page_url = await crawl_queue.get()" and the
\* call of fetch_page(page_url)
DiscoverPop ==
    /\ pc = "discover"
    /\ crawl_queue # << >>
    /\ page_url' = Head(crawl_queue)
    /\ crawl_queue' = Tail(crawl_queue)
    /\ CallFetch(Main, Head(crawl_queue))
    /\ list_fetches' = Bump(list_fetches, Head(crawl_queue))
    /\ pc' = "list_fetch"
    /\ UNCHANGED <<run_no, twin_vars, parser_vars, mode, site, store_vars, task_vars, list_failed, fetched, item_hist,
                   book_urls, existing_urls, known_books, new_book_urls, num_new_books,
                   num_updated_books, emails>>

\* mutant: hrefs are resolved against the requested URL
ResolveAgainstRequest(resp, requested, rel_url) == urljoin(requested, rel_url)

\* the URL an href of the fetched page stands for
Resolve(resp, requested, rel_url) == urljoin(resp.url, rel_url)

\* the body of the try block: item links and the next link are resolved
\* against response.url; the set takes the items, the queue the next page
ListFetched ==
    /\ pc = "list_fetch"
    /\ fst[Main] = "returned"
    /\ LET parsed == parse_list_page(Text(Main))
           links == parsed.book_urls
       IN /\ book_urls' = book_urls \cup
                 {Resolve(response[Main], page_url, links[i]) : i \in 1..Len(links)}
          /\ crawl_queue' =
                 IF parsed.next_page_url # NoUrl
                 THEN Append(crawl_queue,
                             Resolve(response[Main], page_url, parsed.next_page_url))
                 ELSE crawl_queue
    /\ list_failed' = IF response[Main].status_code = 200
                      THEN list_failed ELSE list_failed \cup {page_url}
    /\ FetchTaken(Main)
    /\ pc' = "discover"
    /\ UNCHANGED <<run_no, twin_vars, parser_vars, mode, site, store_vars, task_vars, list_fetches, fetched, item_hist,
                   page_url,
                   existing_urls, known_books, new_book_urls, num_new_books,
                   num_updated_books, emails>>

\* mutant: the loop has no handler, the failure leaves the entrypoint
ListFetchFailedUncaught ==
    /\ pc = "list_fetch"
    /\ fst[Main] = "raised"
    /\ FetchTaken(Main)
    /\ pc' = "crashed"
    /\ UNCHANGED <<run_no, twin_vars, parser_vars, mode, site, store_vars, task_vars, hist_vars, page_url,
                   crawl_queue, book_urls, existing_urls, known_books, new_book_urls,
                   num_new_books, num_updated_books, emails>>

\* "except Exception": the failure is logged, the loop goes on
ListFetchFailed ==
    /\ pc = "list_fetch"
    /\ fst[Main] = "raised"
    /\ list_failed' = list_failed \cup {page_url}
    /\ FetchTaken(Main)
    /\ pc' = "discover"
    /\ UNCHANGED <<run_no, twin_vars, parser_vars, mode, site, store_vars, task_vars, list_fetches, fetched, item_hist,
                   page_url,
                   crawl_queue, book_urls, existing_urls, known_books, new_book_urls,
                   num_new_books, num_updated_books, emails>>

(***************************************************************************)
(* run_crawler, stage 2, and process_book_page                             *)
(***************************************************************************)
\* mutant: the resume set is not subtracted
UrlsToCrawlAll(discovered, existing) == discovered

\* urls_to_crawl = list(spider.book_urls_to_crawl - existing_urls)
UrlsToCrawl(discovered, existing) == discovered \ existing

\* the queue is empty: one process_book_page task per URL to crawl
CrawlSpawn ==
    /\ pc = "discover" /\ mode = "crawl"
    /\ crawl_queue = << >>
    /\ tpc' = [u \in ItemUrls |->
                 IF u \in UrlsToCrawl(book_urls, existing_urls) THEN "start" ELSE tpc[u]]
    /\ pc' = "gather"
    /\ UNCHANGED <<run_no, twin_vars, parser_vars, mode, site, store_vars, fetch_vars, hist_vars, tres, tbook,
                   crawl_queue, page_url, book_urls, existing_urls, known_books,
                   new_book_urls, num_new_books, num_updated_books, emails>>

\* a task begins: "response = await spider.fetch_page(url)"
TaskStart(u) ==
    /\ tpc[u] = "start"
    /\ CallFetch(u, u)
    /\ fetched' = fetched \cup {u}
    /\ tpc' = [tpc EXCEPT ![u] = "fetch"]
    /\ UNCHANGED <<run_no, twin_vars, parser_vars, mode, site, store_vars, main_vars, tres, tbook, list_fetches,
                   list_failed, item_hist>>

\* mutant: the except clause is missing, the exception leaves the task
OnTaskExceptionUncaught(m) == "exception"

\* what a task returns when its except clause has caught an exception:
\* process_book_page falls off its end, check_book_update returns False
OnTaskException(m) == IF m = "crawl" THEN "None" ELSE "False"

\* the fetch raised: caught inside the task
TaskFetchFailed(u) ==
    /\ tpc[u] = "fetch"
    /\ fst[u] = "raised"
    /\ FetchTaken(u)
    /\ tpc' = [tpc EXCEPT ![u] = "done"]
    /\ tres' = [tres EXCEPT ![u] = OnTaskException(mode)]
    /\ outcome' = [outcome EXCEPT ![u] = "fetch_failed"]
    /\ UNCHANGED <<run_no, twin_vars, parser_vars, mode, site, store_vars, main_vars, tbook, list_fetches,
                   list_failed, fetched, store_error, logged, book_writes>>

\* process_book_page: the response is parsed; a Book goes to the upsert
CrawlTaskFetched(u) ==
    /\ mode = "crawl"
    /\ tpc[u] = "fetch"
    /\ fst[u] = "returned"
    /\ LET book == parse_book_page(Text(u), u)
       IN IF book # NoBook
          THEN /\ tbook' = [tbook EXCEPT ![u] = book]
               /\ tpc' = [tpc EXCEPT ![u] = "save"]
               /\ UNCHANGED tres
          ELSE /\ tpc' = [tpc EXCEPT ![u] = "done"]
               /\ tres' = [tres EXCEPT ![u] = "None"]
               /\ UNCHANGED tbook
    /\ outcome' = [outcome EXCEPT ![u] =
           IF parse_book_page(Text(u), u) # NoBook THEN "extracted" ELSE "parse_failed"]
    /\ FetchTaken(u)
    /\ UNCHANGED <<run_no, twin_vars, parser_vars, mode, site, store_vars, main_vars, list_fetches, list_failed,
                   fetched, store_error, logged, book_writes>>

\* "await spider.db.books.update_one(..., upsert=True)": the write happens, or
\* the call raises (the store is unreachable, or a unique index refuses it)
CrawlTaskSave(u, reachable) ==
    /\ mode = "crawl"
    /\ tpc[u] = "save"
    /\ LET r == UpsertByUpc(books, tbook[u])
       IN IF reachable /\ ~r.raised
          THEN /\ books' = r.books
               /\ tres' = [tres EXCEPT ![u] = "None"]
               /\ book_writes' = [book_writes EXCEPT ![u] = @ + 1]
               /\ UNCHANGED store_error
          ELSE /\ UNCHANGED <<books, book_writes>>
               /\ tres' = [tres EXCEPT ![u] = OnTaskException(mode)]
               /\ store_error' = [store_error EXCEPT ![u] =
                      IF reachable THEN "duplicate_key" ELSE "unreachable"]
    /\ tpc' = [tpc EXCEPT ![u] = "done"]
    /\ tbook' = [tbook EXCEPT ![u] = NoBook]
    /\ UNCHANGED <<run_no, twin_vars, parser_vars, mode, site, change_log, unique_indexes, main_vars, fetch_vars,
                   list_fetches, list_failed, fetched, outcome, logged>>

(***************************************************************************)
(* run_daily_change_detection, stage 2, and check_book_update              *)
(***************************************************************************)
\* new_book_urls = all_current_book_urls - known_books.keys()
NewBookUrls(discovered, known) == discovered \ SourceUrls(known)

\* mutant: only the known books found on the site are checked
BooksToCheckDiscovered(discovered, known) == SourceUrls(known) \cap discovered

\* books_to_check = known_books.values()
BooksToCheck(discovered, known) == SourceUrls(known)

\* the queue is empty: the known map is read and the new URLs are split off
DetectPartition ==
    /\ pc = "discover" /\ mode = "detect"
    /\ crawl_queue = << >>
    /\ known_books' = books
    /\ new_book_urls' = NewBookUrls(book_urls, books)
    /\ num_new_books' = Cardinality(NewBookUrls(book_urls, books))
    /\ pc' = "new_books"
    /\ UNCHANGED <<run_no, twin_vars, parser_vars, mode, site, store_vars, task_vars, fetch_vars, hist_vars,
                   crawl_queue, page_url, book_urls, existing_urls,
                   num_updated_books, emails>>

\* "for url in new_book_urls": the next new URL is fetched
NewBookNext(url) ==
    /\ pc = "new_books"
    /\ url \in new_book_urls
    /\ new_book_urls' = new_book_urls \ {url}
    /\ page_url' = url
    /\ CallFetch(Main, url)
    /\ fetched' = fetched \cup {url}
    /\ pc' = "new_fetch"
    /\ UNCHANGED <<run_no, twin_vars, parser_vars, mode, site, store_vars, task_vars, list_fetches, list_failed,
                   item_hist, crawl_queue, book_urls, existing_urls, known_books, num_new_books,
                   num_updated_books, emails>>

\* the response is parsed; a Book goes to insert_one, None is skipped
NewBookFetched ==
    /\ pc = "new_fetch"
    /\ fst[Main] = "returned"
    /\ LET book == parse_book_page(Text(Main), page_url)
       IN IF book # NoBook
          THEN /\ tbook' = [tbook EXCEPT ![Main] = book]
               /\ pc' = "new_insert"
          ELSE /\ UNCHANGED tbook
               /\ pc' = "new_books"
    /\ outcome' = [outcome EXCEPT ![page_url] =
           IF parse_book_page(Text(Main), page_url) # NoBook
           THEN "extracted" ELSE "parse_failed"]
    /\ FetchTaken(Main)
    /\ UNCHANGED <<run_no, twin_vars, parser_vars, mode, site, store_vars, tpc, tres, list_fetches, list_failed,
                   fetched, store_error, logged, book_writes, crawl_queue, page_url,
                   book_urls, existing_urls, known_books, new_book_urls, num_new_books,
                   num_updated_books, emails>>

\* the fetch raised: "except Exception" logs and goes to the next URL
NewBookFetchFailed ==
    /\ pc = "new_fetch"
    /\ fst[Main] = "raised"
    /\ FetchTaken(Main)
    /\ pc' = "new_books"
    /\ outcome' = [outcome EXCEPT ![page_url] = "fetch_failed"]
    /\ UNCHANGED <<run_no, twin_vars, parser_vars, mode, site, store_vars, task_vars, list_fetches, list_failed,
                   fetched, store_error, logged, book_writes, crawl_queue, page_url,
                   book_urls, existing_urls, known_books, new_book_urls, num_new_books,
                   num_updated_books, emails>>

\* "await db.books.insert_one(book_data)"
NewBookInsert(reachable) ==
    /\ pc = "new_insert"
    /\ LET r == InsertOne(books, tbook[Main], unique_indexes)
       IN IF reachable /\ ~r.raised
          THEN /\ books' = r.books
               /\ pc' = "new_log"
               /\ book_writes' = [book_writes EXCEPT ![page_url] = @ + 1]
               /\ UNCHANGED <<tbook, store_error>>
          ELSE /\ UNCHANGED <<books, book_writes>>
               /\ pc' = "new_books"
               /\ tbook' = [tbook EXCEPT ![Main] = NoBook]
               /\ store_error' = [store_error EXCEPT ![page_url] =
                      IF reachable THEN "duplicate_key" ELSE "unreachable"]
    /\ UNCHANGED <<run_no, twin_vars, parser_vars, mode, site, change_log, unique_indexes, tpc, tres, fetch_vars,
                   list_fetches, list_failed, fetched, outcome, logged,
                   crawl_queue, page_url, book_urls, existing_urls, known_books,
                   new_book_urls, num_new_books, num_updated_books, emails>>

\* "await db.change_log.insert_one(<the added entry>)"
NewBookLog(reachable) ==
    /\ pc = "new_log"
    /\ IF reachable
       THEN /\ change_log' = InsertMany(change_log, {AddedEntry(tbook[Main])})
            /\ logged' = [logged EXCEPT ![page_url] =
                   InsertMany(@, {AddedEntry(tbook[Main])})]
            /\ UNCHANGED store_error
       ELSE /\ store_error' = [store_error EXCEPT ![page_url] = "unreachable"]
            /\ UNCHANGED <<change_log, logged>>
    /\ tbook' = [tbook EXCEPT ![Main] = NoBook]
    /\ pc' = "new_books"
    /\ UNCHANGED <<run_no, twin_vars, parser_vars, mode, site, books, unique_indexes, tpc, tres, fetch_vars,
                   list_fetches, list_failed, fetched, outcome, book_writes,
                   crawl_queue, page_url, book_urls, existing_urls, known_books,
                   new_book_urls, num_new_books, num_updated_books, emails>>

\* the loop over the new URLs has ended: one check_book_update task per
\* book to check
DetectSpawn ==
    /\ pc = "new_books"
    /\ new_book_urls = {}
    /\ tpc' = [u \in ItemUrls |->
                 IF u \in BooksToCheck(book_urls, known_books) THEN "start" ELSE tpc[u]]
    /\ pc' = "gather"
    /\ UNCHANGED <<run_no, twin_vars, parser_vars, mode, site, store_vars, fetch_vars, hist_vars, tres, tbook,
                   crawl_queue, page_url, book_urls, existing_urls, known_books,
                   new_book_urls, num_new_books, num_updated_books, emails>>

OldBook(u) == CHOOSE d \in known_books : d.source_url = u

\* check_book_update after the fetch: parse, compare the fingerprints, and on
\* a difference build the entries of log_changes
CheckFetched(u) ==
    /\ mode = "detect"
    /\ tpc[u] = "fetch"
    /\ fst[u] = "returned"
    /\ LET new_book == parse_book_page(Text(u), u)
       IN IF new_book = NoBook
          THEN /\ tpc' = [tpc EXCEPT ![u] = "done"]
               /\ tres' = [tres EXCEPT ![u] = "False"]
               /\ UNCHANGED tbook
          ELSE IF FingerprintChanged(new_book, OldBook(u))
          THEN /\ tpc' = [tpc EXCEPT ![u] =
                      IF Changes(OldBook(u), new_book) # {} THEN "log" ELSE "update"]
               /\ tbook' = [tbook EXCEPT ![u] = new_book]
               /\ UNCHANGED tres
          ELSE /\ tpc' = [tpc EXCEPT ![u] = "done"]
               /\ tres' = [tres EXCEPT ![u] = "False"]
               /\ UNCHANGED tbook
    /\ outcome' = [outcome EXCEPT ![u] =
           LET new_book == parse_book_page(Text(u), u)
           IN IF new_book = NoBook THEN "parse_failed"
              ELSE IF new_book.data_fingerprint # OldBook(u).data_fingerprint
                   THEN "differs" ELSE "same"]
    /\ FetchTaken(u)
    /\ UNCHANGED <<run_no, twin_vars, parser_vars, mode, site, store_vars, main_vars, list_fetches, list_failed,
                   fetched, store_error, logged, book_writes>>

\* log_changes: "await db.change_log.insert_many(log_models)"
CheckLog(u, reachable) ==
    /\ tpc[u] = "log"
    /\ IF reachable
       THEN /\ change_log' = InsertMany(change_log, Changes(OldBook(u), tbook[u]))
            /\ logged' = [logged EXCEPT ![u] =
                   InsertMany(@, Changes(OldBook(u), tbook[u]))]
            /\ tpc' = [tpc EXCEPT ![u] = "update"]
            /\ UNCHANGED <<tres, tbook, store_error>>
       ELSE /\ UNCHANGED <<change_log, logged>>
            /\ tpc' = [tpc EXCEPT ![u] = "done"]
            /\ tres' = [tres EXCEPT ![u] = OnTaskException(mode)]
            /\ tbook' = [tbook EXCEPT ![u] = NoBook]
            /\ store_error' = [store_error EXCEPT ![u] = "unreachable"]
    /\ UNCHANGED <<run_no, twin_vars, parser_vars, mode, site, books, unique_indexes, main_vars, fetch_vars,
                   list_fetches, list_failed, fetched, outcome, book_writes>>

\* "await db.books.update_one({"upc": new_book.upc}, {"$set": ...})"
CheckUpdate(u, reachable) ==
    /\ tpc[u] = "update"
    /\ IF reachable
       THEN /\ books' = UpdateFields(books, tbook[u])
            /\ tres' = [tres EXCEPT ![u] = "True"]
            /\ book_writes' = [book_writes EXCEPT ![u] =
                   @ + Cardinality({d \in books : d.upc = tbook[u].upc})]
            /\ UNCHANGED store_error
       ELSE /\ UNCHANGED <<books, book_writes>>
            /\ tres' = [tres EXCEPT ![u] = OnTaskException(mode)]
            /\ store_error' = [store_error EXCEPT ![u] = "unreachable"]
    /\ tpc' = [tpc EXCEPT ![u] = "done"]
    /\ tbook' = [tbook EXCEPT ![u] = NoBook]
    /\ UNCHANGED <<run_no, twin_vars, parser_vars, mode, site, change_log, unique_indexes, main_vars, fetch_vars,
                   list_fetches, list_failed, fetched, outcome, logged>>

(***************************************************************************)
(* "await asyncio.gather" over the tasks, and the end of the run           *)
(***************************************************************************)
Spawned == {u \in ItemUrls : tpc[u] # "none"}

\* mutant: only updates trigger the notification
ShouldNotifyUpdatesOnly(new, updated) == updated > 0

\* "if num_new_books > 0 or num_updated_books > 0"
ShouldNotify(new, updated) == new > 0 \/ updated > 0

\* gather without return_exceptions: the first exception of a task is raised
\* in the entrypoint, which has no handler; otherwise the results of all tasks
\* are counted and the summary decides whether to notify
Gather ==
    /\ pc = "gather"
    /\ IF \E u \in Spawned : tres[u] = "exception"
       THEN /\ pc' = "crashed"
            /\ UNCHANGED <<num_updated_books, emails>>
       ELSE /\ \A u \in Spawned : tpc[u] = "done"
            /\ IF mode = "crawl"
               THEN /\ UNCHANGED num_updated_books
                    /\ pc' = "cleanup"
               ELSE LET n == Cardinality({u \in Spawned : tres[u] = "True"})
                    IN /\ num_updated_books' = n
                       /\ pc' = IF ShouldNotify(num_new_books, n)
                                THEN "notify" ELSE "cleanup"
            /\ UNCHANGED emails
    /\ UNCHANGED <<run_no, twin_vars, parser_vars, mode, site, store_vars, task_vars, fetch_vars, hist_vars,
                   crawl_queue, page_url, book_urls, existing_urls, known_books,
                   new_book_urls, num_new_books>>

\* mutant: a failed delivery leaves the function as an exception
send_alert_email_uncaught(api_key, addresses, delivery_ok) ==
    IF ~api_key THEN "skipped"
    ELSE IF ~addresses THEN "skipped"
    ELSE IF delivery_ok THEN "sent"
    ELSE "raised"

\* utils/email.py send_alert_email: how a call ends, given whether
\* SENDGRID_API_KEY is set, whether both addresses are set and whether
\* sg.send succeeds; "logged" is the except clause
send_alert_email(api_key, addresses, delivery_ok) ==
    IF ~api_key THEN "skipped"
    ELSE IF ~addresses THEN "skipped"
    ELSE IF delivery_ok THEN "sent"
    ELSE "logged"

\* "await send_alert_email(subject, body_html)"
Notify(api_key, addresses, delivery_ok) ==
    /\ pc = "notify"
    /\ emails' = Append(emails, send_alert_email(api_key, addresses, delivery_ok))
    /\ pc' = IF send_alert_email(api_key, addresses, delivery_ok) = "raised"
             THEN "crashed" ELSE "cleanup"
    /\ UNCHANGED <<run_no, twin_vars, parser_vars, mode, site, store_vars, task_vars, fetch_vars, hist_vars,
                   crawl_queue, page_url, book_urls, existing_urls, known_books,
                   new_book_urls, num_new_books, num_updated_books>>

\* mutant: after the summary the entrypoint goes back to discovery
CleanupThenDiscover ==
    /\ pc = "cleanup"
    /\ pc' = "discover"
    /\ UNCHANGED <<run_no, twin_vars, parser_vars, mode, site, store_vars, task_vars, fetch_vars, hist_vars,
                   crawl_queue, page_url, book_urls, existing_urls, known_books,
                   new_book_urls, num_new_books, num_updated_books, emails>>

\* "await spider.close(); db_client.close()"
Cleanup ==
    /\ pc = "cleanup"
    /\ pc' = "done"
    /\ UNCHANGED <<run_no, twin_vars, parser_vars, mode, site, store_vars, task_vars, fetch_vars, hist_vars,
                   crawl_queue, page_url, book_urls, existing_urls, known_books,
                   new_book_urls, num_new_books, num_updated_books, emails>>

Next ==
    \/ CrawlStart
    \/ DetectStart
    \/ DiscoverPop
    \/ ListFetched
    \/ ListFetchFailed
    \/ CrawlSpawn
    \/ DetectPartition
    \/ \E url \in ItemUrls : NewBookNext(url)
    \/ NewBookFetched
    \/ NewBookFetchFailed
    \/ \E reachable \in BOOLEAN : NewBookInsert(reachable)
    \/ \E reachable \in BOOLEAN : NewBookLog(reachable)
    \/ DetectSpawn
    \/ \E u \in ItemUrls : TaskStart(u)
    \/ \E u \in ItemUrls : TaskFetchFailed(u)
    \/ \E u \in ItemUrls : CrawlTaskFetched(u)
    \/ \E u \in ItemUrls, reachable \in BOOLEAN : CrawlTaskSave(u, reachable)
    \/ \E u \in ItemUrls : CheckFetched(u)
    \/ \E u \in ItemUrls, reachable \in BOOLEAN : CheckLog(u, reachable)
    \/ \E u \in ItemUrls, reachable \in BOOLEAN : CheckUpdate(u, reachable)
    \/ Gather
    \/ \E api_key \in BOOLEAN, addresses \in BOOLEAN, delivery_ok \in BOOLEAN :
          Notify(api_key, addresses, delivery_ok)
    \/ Cleanup
    \/ \E c \in Callers : Acquire(c)
    \/ \E c \in Callers, status \in ServedStatuses : GetResponse(c, status)
    \/ \E c \in Callers : BackoffDone(c)

Spec == Init /\ [][Next]_vars

\* The event loop runs every coroutine that can take a step, every HTTP
\* attempt ends (response, error or the 15 s timeout) and every store call
\* returns: some enabled step is always taken.
LiveSpec == Spec /\ WF_vars(Next)

(***************************************************************************)
(* run_crawler alone, on an empty store                                    *)
(***************************************************************************)
CrawlInit ==
    /\ Init
    /\ mode = "crawl" /\ site = "linear" /\ books = {} /\ unique_indexes = FALSE

\* the steps of run_crawler, of its tasks and of fetch_page
CrawlNext ==
    \/ CrawlStart
    \/ DiscoverPop
    \/ ListFetched
    \/ ListFetchFailed
    \/ CrawlSpawn
    \/ \E u \in ItemUrls : TaskStart(u)
    \/ \E u \in ItemUrls : TaskFetchFailed(u)
    \/ \E u \in ItemUrls : CrawlTaskFetched(u)
    \/ \E u \in ItemUrls, reachable \in BOOLEAN : CrawlTaskSave(u, reachable)
    \/ Gather
    \/ Cleanup
    \/ \E c \in Callers : Acquire(c)
    \/ \E c \in Callers, status \in ServedStatuses : GetResponse(c, status)
    \/ \E c \in Callers : BackoffDone(c)

\* as LiveSpec: the event loop takes some enabled step, every HTTP attempt
\* and every store call ends
FetchLiveSpec == CrawlInit /\ [][CrawlNext]_vars /\ WF_vars(CrawlNext)

\* run_crawler with the connection retries of the transport made visible
TransportNext ==
    \/ CrawlNext
    \/ \E c \in Callers : TransportRetry(c)

TransportSpec == CrawlInit /\ [][TransportNext]_vars

(***************************************************************************)
(* The functions of crawler/parser.py called on their own, on inputs drawn *)
(* from bounded sets.                                                      *)
(***************************************************************************)
\* the text of a price cell: a glyph ("A_GBP": the two characters the code
\* strips, "GBP": the pound sign alone, "": none) and an amount, where a
\* negative amount stands for text that is not a decimal; or no cell at all
PriceStrs ==
    [row : {TRUE}, glyph : {"A_GBP", "GBP", ""}, amount : {-1, 0, 10}]
        \cup {[row |-> FALSE]}

\* the class attribute of p.star-rating, or None when the element is absent
RatingClasses ==
    {None, "", "invalid-rating", "star-rating", "star-rating One",
     "star-rating Two", "star-rating Three", "star-rating Four",
     "star-rating Five"}

\* the dicts _get_fingerprint is applied to
FingerprintInputs ==
    [name : {"name", "old name"},
     price_incl_tax : {10, 12},
     price_excl_tax : {0, 10},
     availability : {"In stock", "Out of stock"}]

\* item pages with each structural element present or absent
PageBodies ==
    [kind : {"item"},
     upc : {None, "u1"},
     title : {None, "name"},
     description : {"text"},
     category : {None, "Poetry"},
     price_incl : {[row |-> FALSE], [row |-> TRUE, glyph |-> "A_GBP", amount |-> 12]},
     price_excl : {[row |-> TRUE, glyph |-> "A_GBP", amount |-> 10]},
     availability : {None, "In stock"},
     num_reviews : {0},
     star_class : {None, "star-rating", "star-rating Three"},
     img_src : {NoUrl, <<"..", "..", "media", "img.jpg">>}]

CallCleanPrice(price_str) ==
    /\ parser_in' = [fn |-> "_clean_price", arg |-> price_str]
    /\ parser_out' = [value |-> _clean_price(price_str)]
    /\ UNCHANGED <<run_no, twin_vars, mode, site, store_vars, main_vars, task_vars,
                   fetch_vars, hist_vars>>

CallCleanRating(rating_class) ==
    /\ parser_in' = [fn |-> "_clean_rating", arg |-> rating_class]
    /\ parser_out' = [value |-> _clean_rating(rating_class)]
    /\ UNCHANGED <<run_no, twin_vars, mode, site, store_vars, main_vars, task_vars,
                   fetch_vars, hist_vars>>

\* two calls, one after the other
CallGetFingerprint(data1, data2) ==
    /\ parser_in' = [fn |-> "_get_fingerprint", arg |-> <<data1, data2>>]
    /\ parser_out' = [value |-> <<_get_fingerprint(data1), _get_fingerprint(data2)>>]
    /\ UNCHANGED <<run_no, twin_vars, mode, site, store_vars, main_vars, task_vars,
                   fetch_vars, hist_vars>>

CallParseBookPage(body, source_url) ==
    /\ parser_in' = [fn |-> "parse_book_page", arg |-> body, source_url |-> source_url]
    /\ parser_out' = [value |-> parse_book_page(body, source_url)]
    /\ UNCHANGED <<run_no, twin_vars, mode, site, store_vars, main_vars, task_vars,
                   fetch_vars, hist_vars>>

ParserInit ==
    /\ Init
    /\ mode = "crawl" /\ site = "linear" /\ books = {} /\ unique_indexes = FALSE

ParserNext ==
    \/ \E price_str \in PriceStrs : CallCleanPrice(price_str)
    \/ \E rating_class \in RatingClasses : CallCleanRating(rating_class)
    \/ \E data1 \in FingerprintInputs, data2 \in FingerprintInputs :
          CallGetFingerprint(data1, data2)
    \/ \E body \in PageBodies : CallParseBookPage(body, B1)

ParserSpec == ParserInit /\ [][ParserNext]_vars

(***************************************************************************)
(* Two change-detection runs in a row on one store: the scheduler starts   *)
(* run_daily_change_detection again after a run in which nothing failed.   *)
(***************************************************************************)
RepeatStores == { {}, {StoredBook(B1, "both"), StoredBook(B2, "same")} }

\* no listing fetch, item fetch, extraction or store call of the run failed
CleanRun ==
    /\ list_failed = {}
    /\ \A u \in ItemUrls :
          /\ outcome[u] \notin {"fetch_failed", "parse_failed"}
          /\ store_error[u] = "none"

\* the scheduled job fires again: a new Spider, new locals, the same store
Restart ==
    /\ pc = "done" /\ run_no = 1
    /\ CleanRun
    /\ run_no' = 2
    /\ pc' = "start"
    /\ crawl_queue' = << >>
    /\ page_url' = NoUrl
    /\ book_urls' = {}
    /\ existing_urls' = {}
    /\ known_books' = {}
    /\ new_book_urls' = {}
    /\ num_new_books' = 0
    /\ num_updated_books' = 0
    /\ emails' = << >>
    /\ tpc' = [u \in ItemUrls |-> "none"]
    /\ tres' = [u \in ItemUrls |-> "none"]
    /\ tbook' = [c \in Callers |-> NoBook]
    /\ list_fetches' = [u \in {} |-> 0]
    /\ list_failed' = {}
    /\ fetched' = {}
    /\ outcome' = [u \in ItemUrls |-> "none"]
    /\ store_error' = [u \in ItemUrls |-> "none"]
    /\ logged' = [u \in ItemUrls |-> EmptyBag]
    /\ book_writes' = [u \in ItemUrls |-> 0]
    /\ semaphore' = Concurrency
    /\ fst' = [c \in Callers |-> "idle"]
    /\ furl' = [c \in Callers |-> NoUrl]
    /\ attempt_number' = [c \in Callers |-> 0]
    /\ last_status' = [c \in Callers |-> 0]
    /\ response' = [c \in Callers |-> NoResponse]
    /\ connect_retries' = [c \in Callers |-> 0]
    /\ UNCHANGED <<mode, site, store_vars, parser_vars, twin_vars>>

RepeatInit ==
    /\ mode = "detect"
    /\ site \in RepeatSites
    /\ books \in RepeatStores
    /\ change_log = EmptyBag
    /\ unique_indexes \in (IF books = {} THEN BOOLEAN ELSE {TRUE})
    /\ run_no = 1
    /\ RunStart

\* the steps of run_daily_change_detection, of its tasks and of fetch_page
RepeatNext ==
    \/ DetectStart
    \/ DiscoverPop
    \/ ListFetched
    \/ ListFetchFailed
    \/ DetectPartition
    \/ \E url \in ItemUrls : NewBookNext(url)
    \/ NewBookFetched
    \/ NewBookFetchFailed
    \/ \E reachable \in BOOLEAN : NewBookInsert(reachable)
    \/ \E reachable \in BOOLEAN : NewBookLog(reachable)
    \/ DetectSpawn
    \/ \E u \in ItemUrls : TaskStart(u)
    \/ \E u \in ItemUrls : TaskFetchFailed(u)
    \/ \E u \in ItemUrls : CheckFetched(u)
    \/ \E u \in ItemUrls, reachable \in BOOLEAN : CheckLog(u, reachable)
    \/ \E u \in ItemUrls, reachable \in BOOLEAN : CheckUpdate(u, reachable)
    \/ Gather
    \/ \E api_key \in BOOLEAN, addresses \in BOOLEAN, delivery_ok \in BOOLEAN :
          Notify(api_key, addresses, delivery_ok)
    \/ Cleanup
    \/ \E c \in Callers : Acquire(c)
    \/ \E c \in Callers, status \in ServedStatuses : GetResponse(c, status)
    \/ \E c \in Callers : BackoffDone(c)
    \/ Restart

RepeatSpec == RepeatInit /\ [][RepeatNext]_vars

(***************************************************************************)
(* The two discovery loops side by side: each pops its own queue, and the  *)
(* k-th fetch_page call of either gets the same outcome (200: the page,    *)
(* 404: an error response, 0: the call raised).                            *)
(***************************************************************************)
\* pages a loop pops at most
TwinCap == 4

TwinResults == {0, 200, 404}

\* what fetch_page(page) gives the loop on a result that is not 0
TwinResponse(page, result) ==
    IF result = 200
    THEN [status_code |-> 200, url |-> FinalUrl(site, page), text |-> Served(site, page)]
    ELSE [status_code |-> result, url |-> page, text |-> ErrorBody]

\* one iteration of the while loop of run_crawler on the head of the queue
run_crawler_iteration(queue, urls, result) ==
    LET page == Head(queue)
        rest == Tail(queue)
    IN IF result = 0 THEN [queue |-> rest, urls |-> urls]
       ELSE LET resp == TwinResponse(page, result)
                parsed == parse_list_page(resp.text)
                links == parsed.book_urls
            IN [queue |-> IF parsed.next_page_url # NoUrl
                          THEN Append(rest, urljoin(resp.url, parsed.next_page_url))
                          ELSE rest,
                urls |-> urls \cup {urljoin(resp.url, links[i]) : i \in 1..Len(links)}]

\* mutant: the hrefs are resolved against the URL that was requested
detect_iteration_requested(queue, urls, result) ==
    LET page == Head(queue)
        rest == Tail(queue)
    IN IF result = 0 THEN [queue |-> rest, urls |-> urls]
       ELSE LET resp == TwinResponse(page, result)
                parsed == parse_list_page(resp.text)
                links == parsed.book_urls
            IN [queue |-> IF parsed.next_page_url # NoUrl
                          THEN Append(rest, urljoin(page, parsed.next_page_url))
                          ELSE rest,
                urls |-> urls \cup {urljoin(page, links[i]) : i \in 1..Len(links)}]

\* one iteration of the while loop of run_daily_change_detection
detect_iteration(queue, urls, result) ==
    LET page == Head(queue)
        rest == Tail(queue)
    IN IF result = 0 THEN [queue |-> rest, urls |-> urls]
       ELSE LET resp == TwinResponse(page, result)
                parsed == parse_list_page(resp.text)
                links == parsed.book_urls
            IN [queue |-> IF parsed.next_page_url # NoUrl
                          THEN Append(rest, urljoin(resp.url, parsed.next_page_url))
                          ELSE rest,
                urls |-> urls \cup {urljoin(resp.url, links[i]) : i \in 1..Len(links)}]

\* the k-th fetch has the outcome the other loop saw, or a fresh one
TwinOutcome(k, result) ==
    IF k <= Len(fetch_outcomes)
    THEN result = fetch_outcomes[k] /\ UNCHANGED fetch_outcomes
    ELSE fetch_outcomes' = Append(fetch_outcomes, result)

TwinCrawlStep(result) ==
    /\ spider_crawl_queue # << >>
    /\ Len(crawl_pages) < TwinCap
    /\ TwinOutcome(Len(crawl_pages) + 1, result)
    /\ crawl_pages' = Append(crawl_pages, Head(spider_crawl_queue))
    /\ spider_crawl_queue' =
           run_crawler_iteration(spider_crawl_queue, book_urls_to_crawl, result).queue
    /\ book_urls_to_crawl' =
           run_crawler_iteration(spider_crawl_queue, book_urls_to_crawl, result).urls
    /\ UNCHANGED <<mode, site, store_vars, main_vars, task_vars, fetch_vars, hist_vars,
                   parser_vars, run_no, detect_crawl_queue, all_current_book_urls,
                   detect_pages>>

TwinDetectStep(result) ==
    /\ detect_crawl_queue # << >>
    /\ Len(detect_pages) < TwinCap
    /\ TwinOutcome(Len(detect_pages) + 1, result)
    /\ detect_pages' = Append(detect_pages, Head(detect_crawl_queue))
    /\ detect_crawl_queue' =
           detect_iteration(detect_crawl_queue, all_current_book_urls, result).queue
    /\ all_current_book_urls' =
           detect_iteration(detect_crawl_queue, all_current_book_urls, result).urls
    /\ UNCHANGED <<mode, site, store_vars, main_vars, task_vars, fetch_vars, hist_vars,
                   parser_vars, run_no, spider_crawl_queue, book_urls_to_crawl,
                   crawl_pages>>

TwinInit ==
    /\ Init
    /\ mode = "crawl" /\ books = {} /\ unique_indexes = FALSE

TwinNext ==
    \/ \E result \in TwinResults : TwinCrawlStep(result)
    \/ \E result \in TwinResults : TwinDetectStep(result)

TwinSpec == TwinInit /\ [][TwinNext]_vars

(***************************************************************************)
(* api/security.py get_api_key, called on presented keys and configured    *)
(* hash lists                                                              *)
(***************************************************************************)
\* the length of the configured list (VALID_API_KEY_HASHES split at commas)
MaxHashes == 3

ApiKeys == {"k1", "k2", "other"}

\* an entry of the list: empty, not a bcrypt hash, or the hash of a key
HashEntries == {"", "malformed", "hash_k1", "hash_k2"}

\* split(",") gives at least one entry
HashLists == UNION {[1..n -> HashEntries] : n \in 1..MaxHashes}

\* bcrypt.checkpw(key_bytes, valid_hash_bytes): ValueError on a malformed hash
ValueError == "ValueError"
checkpw(key, valid_hash) ==
    IF valid_hash = "malformed" THEN ValueError
    ELSE IF valid_hash = "hash_k1" THEN key = "k1"
    ELSE IF valid_hash = "hash_k2" THEN key = "k2"
    ELSE FALSE

\* the loop of get_api_key from entry i on: empty entries are skipped, the
\* first match returns the key, an exception leaves the loop for the 401
RECURSIVE VerifyFrom(_, _, _)
VerifyFrom(key, VALID_HASHES, i) ==
    IF i > Len(VALID_HASHES) THEN "401"
    ELSE IF VALID_HASHES[i] = "" THEN VerifyFrom(key, VALID_HASHES, i + 1)
    ELSE IF VALID_HASHES[i] = "malformed" THEN "401"
    ELSE IF checkpw(key, VALID_HASHES[i]) THEN "accepted"
    ELSE VerifyFrom(key, VALID_HASHES, i + 1)

get_api_key(key, VALID_HASHES) == VerifyFrom(key, VALID_HASHES, 1)

CallGetApiKey(key, VALID_HASHES) ==
    /\ parser_in' = [fn |-> "get_api_key", key |-> key, hashes |-> VALID_HASHES]
    /\ parser_out' = [value |-> get_api_key(key, VALID_HASHES)]
    /\ UNCHANGED <<run_no, twin_vars, mode, site, store_vars, main_vars, task_vars,
                   fetch_vars, hist_vars>>

AuthInit == ParserInit

AuthNext == \E key \in ApiKeys, VALID_HASHES \in HashLists : CallGetApiKey(key, VALID_HASHES)

AuthSpec == AuthInit /\ [][AuthNext]_vars

(***************************************************************************)
(* Properties                                                              *)
(***************************************************************************)
InFlight == {c \in Callers : fst[c] = "get"}
DiscoveryDone == pc \notin {"start", "discover", "list_fetch"}
RunEnded == pc \in {"notify", "cleanup", "done"}

\* C1: the number of HTTP requests in flight through fetch_page never
\* exceeds the admission limit, in discovery and in processing alike.
C1_AdmissionBound == Cardinality(InFlight) <= Concurrency

\* the pool is full during the processing phase and a further task waits
C1_Witness ==
    /\ pc = "gather"
    /\ Cardinality(InFlight) = Concurrency
    /\ \E u \in ItemUrls : fst[u] = "acquire"

\* C2: a call of fetch_page makes min(5, k) attempts, k the first attempt
\* whose status is not 500/502/503/504: every attempt before the last had a
\* retryable status, the response of attempt k is what is returned, and a
\* call whose attempts all had a retryable status raises after exactly 5.
C2_RetryCeiling ==
    \A c \in Callers :
        /\ attempt_number[c] <= 5
        /\ fst[c] = "returned" =>
              /\ last_status[c] \notin {0, 500, 502, 503, 504}
              /\ response[c].status_code = last_status[c]
        /\ (fst[c] = "raised" /\ last_status[c] # 0) =>
              /\ last_status[c] \in {500, 502, 503, 504}
              /\ attempt_number[c] = 5
        /\ fst[c] = "backoff" =>
              /\ last_status[c] \in {500, 502, 503, 504}
              /\ attempt_number[c] < 5
        /\ (fst[c] \in {"acquire", "get"} /\ attempt_number[c] > 1) =>
              last_status[c] \in {500, 502, 503, 504}

\* a call has raised after five attempts that all ended in 503
C2_Witness ==
    \E c \in Callers :
        fst[c] = "raised" /\ attempt_number[c] = 5 /\ last_status[c] = 503

\* C3 as stated: a 4xx response reaches the caller as a failure, never as a
\* returned response.
C3_Original ==
    \A c \in Callers : last_status[c] \in 400..499 => fst[c] = "raised"

\* C3 as amended: a 4xx response is not retried and fetch_page returns it to
\* the caller as an ordinary response; no failure is raised.
C3_Amended ==
    \A c \in Callers :
        last_status[c] \in 400..499 =>
            fst[c] = "returned" /\ response[c].status_code = last_status[c]

\* a first attempt answered 404 has been returned to a task
C3_Witness ==
    \E u \in ItemUrls :
        /\ fst[u] = "returned" /\ response[u].status_code = 404
        /\ attempt_number[u] = 1

\* C4: no failure inside an item task leaves the task: a task whose page
\* cannot be fetched or extracted never reports a change, the batch never
\* fails, and when it has resolved every task of it has run to a result.
C4_TaskIsolation ==
    /\ \A u \in ItemUrls :
          /\ tres[u] \in {"none", "None", "True", "False"}
          /\ tres[u] = "True" =>
                OnSite(site, u) /\ parse_book_page(Served(site, u), u) # NoBook
    /\ pc # "crashed"
    /\ RunEnded => \A u \in Spawned : tpc[u] = "done" /\ tres[u] # "none"

\* a change detection over three known books has ended: the check of b1
\* reported a change, the check of the page that is gone reported none, and
\* the store is as a failed task leaves it (b3 unchanged)
C4_Witness ==
    /\ mode = "detect" /\ pc = "done"
    /\ Spawned = {B1, B3, BGone}
    /\ tres[B1] = "True"
    /\ tres[BGone] = "False"
    /\ tres[B3] = "False"

\* C5: every run of either workflow eventually reaches Done.
C5_RunCompletes == <>(pc = "done")

RECURSIVE ChainFrom(_, _, _)
\* the listing pages on the next-page chain from url (requested URLs)
ChainFrom(s, url, seen) ==
    IF url \in seen \/ ~OnSite(s, url) THEN seen
    ELSE LET next == ListBody(s, url).next
         IN IF next = NoUrl THEN seen \cup {url}
            ELSE ChainFrom(s, urljoin(FinalUrl(s, url), next), seen \cup {url})

\* the item links of a listing page, resolved against its final URL
ItemsOf(s, url) ==
    LET links == ListBody(s, url).links
    IN {urljoin(FinalUrl(s, url), links[i]) : i \in 1..Len(links)}

\* C6: when every listing fetch succeeds, discovery ends with the union of
\* the item links of the pages of the chain from the root, each page of the
\* chain fetched exactly once.
C6_Discovery ==
    (DiscoveryDone /\ list_failed = {}) =>
        /\ book_urls = UNION {ItemsOf(site, p) : p \in ChainFrom(site, IndexUrl, {})}
        /\ DOMAIN list_fetches = ChainFrom(site, IndexUrl, {})
        /\ \A p \in DOMAIN list_fetches : list_fetches[p] = 1

\* 2 items and a next link, then 1 new item: 3 URLs and 2 listing fetches
C6_Witness ==
    /\ DiscoveryDone /\ list_failed = {}
    /\ book_urls = {B1, B2, B3}
    /\ DOMAIN list_fetches = {IndexUrl, Page2Url}

\* C7: discovery terminates on every finite site.
C7_DiscoveryTerminates == <>DiscoveryDone

\* C8: a failed listing fetch ends that branch of pagination and nothing
\* else: the pages after it are not fetched, the URLs found before it are
\* kept, and the run goes on.
C8_FailedListing ==
    /\ pc # "crashed"
    /\ DiscoveryDone =>
          /\ \A p \in DOMAIN list_fetches \ list_failed : ItemsOf(site, p) \subseteq book_urls
          /\ IndexUrl \in list_failed =>
                book_urls = {} /\ DOMAIN list_fetches = {IndexUrl}
          /\ (site = "linear" /\ list_failed = {Page2Url}) =>
                book_urls = {B1, B2} /\ list_fetches[Page2Url] = 1

\* the fetch of page 2 raised, the items of page 1 are kept and the run ended
C8_Witness ==
    /\ pc = "done"
    /\ list_failed = {Page2Url}
    /\ book_urls = {B1, B2}

\* C9: the full crawl fetches exactly the discovered URLs that were not in
\* the store when the run began.
C9_ResumeSet ==
    mode = "crawl" =>
        /\ fetched \subseteq book_urls \ existing_urls
        /\ RunEnded => fetched = book_urls \ existing_urls

\* known {b1, b2}, discovered {b1, b2, b3}: only b3 was fetched
C9_Witness ==
    /\ mode = "crawl" /\ pc = "done"
    /\ existing_urls = {B1, B2}
    /\ book_urls = {B1, B2, B3}
    /\ fetched = {B3}

\* C10 as stated: in change detection only discovered URLs are fetched; a
\* known Record whose URL was not discovered is not fetched.
C10_Original == mode = "detect" => fetched \subseteq book_urls

\* C10 as amended: the new URLs are the discovered URLs outside the known
\* map, and the update check runs for every Record of the known map,
\* discovered in this run or not.
C10_Amended ==
    (mode = "detect" /\ RunEnded) =>
        /\ Spawned = SourceUrls(known_books)
        /\ fetched \ Spawned = book_urls \ SourceUrls(known_books)

\* the record of the page that is gone was update-checked
C10_Witness ==
    /\ mode = "detect" /\ pc = "done"
    /\ BGone \in Spawned /\ BGone \in fetched
    /\ BGone \notin book_urls
    /\ B2 \in fetched \ Spawned

(***************************************************************************)
(* Change detection: what a check persists                                 *)
(***************************************************************************)
\* the nine fields the spec lists as comparable
NineFields ==
    {"name", "description", "category", "price_incl_tax", "price_excl_tax",
     "availability", "num_reviews", "rating", "image_url"}

\* the Record extracted from the page the site serves at u now
NowBook(u) == parse_book_page(Served(site, u), u)

\* the events a comparison of old with new is to persist
ExpectedEvents(old, new) ==
    {[book_upc |-> new.upc, field_changed |-> f,
      old_value |-> <<"str", old[f]>>, new_value |-> <<"str", new[f]>>] :
        f \in {g \in NineFields : old[g] # new[g]}}

\* bag b holds exactly one event naming field f
ExactlyOneNaming(b, f) ==
    /\ Cardinality({e \in BagToSet(b) : e.field_changed = f}) = 1
    /\ \A e \in BagToSet(b) : e.field_changed = f => CopiesIn(e, b) = 1

\* the stored Record at u carries the content and fingerprint of new
StoredEquals(u, new) ==
    \E d \in books :
        /\ d.source_url = u
        /\ \A f \in NineFields : d[f] = new[f]
        /\ d.data_fingerprint = new.data_fingerprint

\* C11: a check whose page was fetched and extracted and whose fingerprint
\* differs from the stored one, and whose store calls all succeeded, has
\* persisted the field-level events and left the stored Record of that URL
\* with the content fields and fingerprint of the new extraction.
C11_UpdatePersisted ==
    \A u \in ItemUrls :
        (mode = "detect" /\ tpc[u] = "done" /\ outcome[u] = "differs"
           /\ store_error[u] = "none") =>
            /\ logged[u] # EmptyBag
            /\ StoredEquals(u, NowBook(u))

\* C12: a check whose new fingerprint equals the stored fingerprint writes
\* nothing and reports "no change": it persists no event, writes no Record,
\* and a run whose checks all ended that way (or failed before extraction)
\* and that found no new URL leaves the store as it was read.
C12_NoWriteWhenSame ==
    /\ \A u \in ItemUrls :
          (mode = "detect" /\ outcome[u] = "same") =>
              /\ logged[u] = EmptyBag
              /\ book_writes[u] = 0
              /\ tpc[u] = "done" /\ tres[u] = "False"
    /\ (mode = "detect" /\ pc = "done" /\ book_urls \subseteq SourceUrls(known_books)
          /\ \A u \in Spawned : outcome[u] \in {"same", "parse_failed", "fetch_failed"}) =>
              books = known_books /\ change_log = EmptyBag

\* the title of b3 differs from the stored one, the fingerprint does not:
\* the check has ended with "no change" and nothing written
C12_Witness ==
    /\ mode = "detect" /\ pc = "done"
    /\ outcome[B3] = "same" /\ tres[B3] = "False"
    /\ OldBook(B3).name # NowBook(B3).name
    /\ \A u \in Spawned : outcome[u] \in {"same", "parse_failed", "fetch_failed"}

DiffInputs ==
    UNION Stores \cup
    {parse_book_page(Served(s, u), u) : s \in SiteNames, u \in {B1, B3}}

\* C14: log_changes persists exactly one event per comparable field whose
\* stringified old and new values differ, each with the upc of the new
\* record, the field name and both stringified values: none for records
\* equal on the nine fields, two for records that differ in two fields.
C14_DiffExact ==
    /\ pc = "start" =>
          \A old \in DiffInputs, new \in DiffInputs :
              Changes(old, new) = ExpectedEvents(old, new)
    /\ \A u \in ItemUrls :
          tpc[u] = "update" =>
              logged[u] = SetToBag(ExpectedEvents(OldBook(u), tbook[u]))

\* log_changes has returned for b1, whose page differs from the stored
\* Record in availability and price_incl_tax: two events, naming those
\* fields, with the old and new values
C14_Witness ==
    /\ tpc[B1] = "update"
    /\ BagCardinality(logged[B1]) = 2
    /\ {e.field_changed : e \in BagToSet(logged[B1])} = {"availability", "price_incl_tax"}
    /\ \E e \in BagToSet(logged[B1]) :
          /\ e.old_value = <<"str", "In stock (10 available)">>
          /\ e.new_value = <<"str", "In stock">>

\* C15: the events of one comparison are written by one store call: after
\* the call the change log holds all of them or none, each once, and no
\* call is issued when no field differs.
C15_SingleBatch ==
    \A u \in ItemUrls :
        (mode = "detect" /\ u \in SourceUrls(known_books)) =>
            /\ \/ logged[u] = EmptyBag
               \/ logged[u] = SetToBag(ExpectedEvents(OldBook(u), NowBook(u)))
            /\ tpc[u] = "log" => ExpectedEvents(OldBook(u), tbook[u]) # {}
            /\ tpc[u] = "update" => logged[u] # EmptyBag

\* the write of the two events of b1 failed: none of them is in the store
C15_Witness ==
    /\ mode = "detect" /\ tpc[B1] = "done"
    /\ outcome[B1] = "differs" /\ store_error[B1] = "unreachable"
    /\ Cardinality(ExpectedEvents(OldBook(B1), NowBook(B1))) = 2
    /\ logged[B1] = EmptyBag
    /\ \A e \in BagToSet(change_log) : e.field_changed = "book_status"

\* C16: a finished check has returned True if and only if it persisted at
\* least one event.
C16_ChangedIffLogged ==
    \A u \in ItemUrls :
        (mode = "detect" /\ u \in SourceUrls(known_books) /\ tpc[u] = "done") =>
            (tres[u] = "True" <=> logged[u] # EmptyBag)

\* the new URLs of a change-detection run whose processing has ended
NewDone ==
    IF mode = "detect" /\ pc \in {"gather", "notify", "cleanup", "done"}
    THEN book_urls \ SourceUrls(known_books) ELSE {}

\* the "added" event of the Record the site serves at u
AddedEvent(u) ==
    [book_upc |-> NowBook(u).upc, field_changed |-> "book_status",
     old_value |-> "non-existent", new_value |-> "added"]

C18_EventsReferenceRecords ==
    pc = "done" =>
        \A e \in BagToSet(change_log) : \E d \in books : d.upc = e.book_upc

\* C19: when a run has ended, no two Records share a upc and no two Records
\* share a source_url.
C19_UniqueKeys ==
    pc = "done" =>
        \A d1, d2 \in books :
            (d1.upc = d2.upc \/ d1.source_url = d2.source_url) => d1 = d2

\* C20: every stored Record carries the fingerprint of its own
\* price_incl_tax, price_excl_tax and availability.
C20_FingerprintConsistent ==
    \A d \in books : d.data_fingerprint = _get_fingerprint(d)

\* a check has rewritten the availability and the price of the Record of b1
C20_Witness ==
    /\ mode = "detect" /\ tpc[B1] = "done" /\ book_writes[B1] = 1
    /\ \E d \in books :
          /\ d.source_url = B1
          /\ d.availability = "In stock" /\ d.price_incl_tax = 12
          /\ OldBook(B1).availability # d.availability
          /\ OldBook(B1).price_incl_tax # d.price_incl_tax

(***************************************************************************)
(* Parser functions, notification, frame conditions, phases, restart       *)
(***************************************************************************)
\* C21: two dicts get the same fingerprint if and only if they agree on
\* price_incl_tax, price_excl_tax and availability, whatever their other
\* fields and whichever is hashed first.
C21_FingerprintDependsOnThree ==
    parser_in.fn = "_get_fingerprint" =>
        LET d1 == parser_in.arg[1]
            d2 == parser_in.arg[2]
        IN (parser_out.value[1] = parser_out.value[2]) <=>
               /\ d1.price_incl_tax = d2.price_incl_tax
               /\ d1.price_excl_tax = d2.price_excl_tax
               /\ d1.availability = d2.availability

\* two dicts with different names and the same three fields were hashed to
\* the same value
C21_Witness ==
    /\ parser_in.fn = "_get_fingerprint"
    /\ parser_in.arg[1].name # parser_in.arg[2].name
    /\ parser_in.arg[1].availability = parser_in.arg[2].availability
    /\ parser_out.value[1] = parser_out.value[2]

\* C22: a change-detection run calls the notification once when the new
\* count or the updated count is nonzero and never when both are zero, and
\* only after every existing-URL check has resolved; the full crawl never
\* calls it.
C22_NotifyOnce ==
    /\ Len(emails) <= 1
    /\ mode = "crawl" => emails = << >>
    /\ (mode = "detect" /\ pc \in {"cleanup", "done"}) =>
          /\ num_updated_books = Cardinality({u \in Spawned : tres[u] = "True"})
          /\ Len(emails) = IF num_new_books > 0 \/ num_updated_books > 0 THEN 1 ELSE 0
    /\ (pc = "notify" \/ emails # << >>) =>
          /\ Spawned = SourceUrls(known_books)
          /\ \A u \in Spawned : tpc[u] = "done"
    /\ emails # << >> => pc \in {"cleanup", "done"}

\* no new URL, one updated Record: one call, made after the batch
C22_Witness ==
    /\ mode = "detect" /\ pc = "done"
    /\ num_new_books = 0 /\ num_updated_books = 1
    /\ Len(emails) = 1

\* C23: send_alert_email returns normally however it ends: it skips when
\* the key or an address is missing, logs a failed delivery, and the run
\* goes on to cleanup.
C23_NotifyNeverRaises ==
    /\ pc # "crashed"
    /\ \A i \in 1..Len(emails) : emails[i] \in {"skipped", "sent", "logged"}
    /\ emails # << >> => pc \in {"cleanup", "done"}

\* the delivery failed and the run has ended all the same
C23_Witness ==
    /\ pc = "done"
    /\ emails = <<"logged">>

\* a page body with every element but, possibly, the price row, the rating
\* indicator and the image
OtherwiseComplete(body) ==
    /\ body.upc # None /\ body.title # None
    /\ body.category # None /\ body.availability # None

\* C24: _clean_price returns a number for every input, the decimal when the
\* text is a glyph-prefixed decimal and 0 otherwise (non-numeric, empty or
\* absent text), and a page without its price row still yields a Record,
\* with price 0.
C24_PriceNeverRaises ==
    /\ parser_in.fn = "_clean_price" =>
          parser_out.value =
              IF parser_in.arg.row /\ parser_in.arg.amount >= 0
              THEN parser_in.arg.amount ELSE 0
    /\ (parser_in.fn = "parse_book_page" /\ OtherwiseComplete(parser_in.arg)
          /\ parser_in.arg.star_class # None /\ ~parser_in.arg.price_incl.row) =>
          /\ parser_out.value # NoBook
          /\ parser_out.value.price_incl_tax = 0

\* C25: the rating is the number of the word token in the indicator and 0
\* when no token matches or the indicator is absent; every extracted Record
\* has a rating in 0..5, and a page without the indicator yields a Record
\* with rating 0.
C25_RatingOfToken ==
    /\ parser_in.fn = "_clean_rating" =>
          parser_out.value =
              IF parser_in.arg = "star-rating One" THEN 1
              ELSE IF parser_in.arg = "star-rating Two" THEN 2
              ELSE IF parser_in.arg = "star-rating Three" THEN 3
              ELSE IF parser_in.arg = "star-rating Four" THEN 4
              ELSE IF parser_in.arg = "star-rating Five" THEN 5
              ELSE 0
    /\ (parser_in.fn = "parse_book_page" /\ parser_out.value # NoBook) =>
          parser_out.value.rating \in 0..5
    /\ (parser_in.fn = "parse_book_page" /\ OtherwiseComplete(parser_in.arg)
          /\ parser_in.arg.price_incl.row /\ parser_in.arg.star_class = None) =>
          /\ parser_out.value # NoBook
          /\ parser_out.value.rating = 0

\* C26: parse_book_page returns a fully populated Record or null, and null
\* for a page that lacks its UPC, title, category, availability or image.
C26_RecordOrNull ==
    parser_in.fn = "parse_book_page" =>
        /\ parser_out.value # NoBook =>
              /\ parser_out.value.upc # None /\ parser_out.value.name # None
              /\ parser_out.value.category # None
              /\ parser_out.value.availability # None
              /\ parser_out.value.rating \in 0..5
              /\ parser_out.value.data_fingerprint = _get_fingerprint(parser_out.value)
        /\ (~OtherwiseComplete(parser_in.arg) \/ parser_in.arg.img_src = NoUrl) =>
              parser_out.value = NoBook

\* every store the model starts a run from
AllStores == Stores \cup {ResumedStore("reissued")}

\* the store as the run found it (a full crawl keeps only its source URLs)
InitialStore ==
    IF mode = "crawl"
    THEN CHOOSE S \in AllStores : SourceUrls(S) = existing_urls
    ELSE known_books

\* the store has been read by the run
StoreRead ==
    IF mode = "crawl" THEN pc # "start"
    ELSE pc \in {"new_books", "new_fetch", "new_insert", "new_log", "gather",
                 "notify", "cleanup", "done"}

\* C27: an item whose fetch failed or whose extraction returned null causes
\* no store call: a known Record stays as it was and gets no event, a new
\* URL gets no Record and no event; and no Record is ever deleted.
C27_SkipWithoutWrite ==
    /\ \A u \in ItemUrls :
          outcome[u] \in {"fetch_failed", "parse_failed"} =>
              /\ logged[u] = EmptyBag
              /\ book_writes[u] = 0
              /\ store_error[u] = "none"
              /\ (StoreRead /\ mode = "detect") =>
                    \A d \in books \cup known_books :
                        d.source_url = u => d \in books \cap known_books
    /\ StoreRead =>
          /\ \A d \in InitialStore : \E e \in books : e.upc = d.upc
          /\ Cardinality(books) >= Cardinality(InitialStore)

\* the page of a known Record is gone (404) and a new page is malformed:
\* the Record is in the store as it was, the new URL has no Record
C27_Witness ==
    /\ mode = "detect" /\ pc = "done"
    /\ outcome[BGone] = "parse_failed" /\ StoredBook(BGone, "same") \in books
    /\ \E u \in book_urls \ SourceUrls(known_books) :
          /\ outcome[u] = "parse_failed"
          /\ ~ \E d \in books : d.source_url = u

\* the phase of a run
Phase ==
    IF pc = "start" THEN 0
    ELSE IF pc \in {"discover", "list_fetch"} THEN 1
    ELSE IF pc \in {"new_books", "new_fetch", "new_insert", "new_log", "gather"} THEN 3
    ELSE IF pc = "notify" THEN 4
    ELSE IF pc = "cleanup" THEN 5
    ELSE 6

\* the item tasks and the loop over the new URLs have all ended
ProcessingDone ==
    /\ new_book_urls = {}
    /\ \A u \in Spawned : tpc[u] = "done"

\* C28 as stated: the known set or map is read only after discovery has
\* finished, no item page is fetched before, and the summary comes after
\* all processing.
C28_Original ==
    /\ (existing_urls # {} \/ known_books # {}) => DiscoveryDone
    /\ (fetched # {} \/ Spawned # {}) => DiscoveryDone
    /\ Phase >= 4 => ProcessingDone

\* C28 as amended: the phases follow each other in order and are never
\* re-entered; the change detection reads its known map after discovery,
\* the full crawl reads its known-URL set before discovery starts; no item
\* page is fetched before discovery has finished and the summary comes
\* after all processing.
C28_Amended ==
    /\ [](/\ known_books # {} => DiscoveryDone
          /\ (mode = "crawl" /\ Phase >= 1) => existing_urls = SourceUrls(InitialStore)
          /\ (mode = "crawl" /\ pc = "discover" /\ DOMAIN list_fetches = {}) =>
                existing_urls = SourceUrls(books)
          /\ (fetched # {} \/ Spawned # {}) => DiscoveryDone
          /\ Phase >= 4 => ProcessingDone)
    /\ [][Phase' >= Phase]_vars

\* a full crawl that read a non-empty known-URL set at its start has
\* discovered, fetched the other items and ended
C28_Witness ==
    /\ mode = "crawl" /\ pc = "done"
    /\ existing_urls = {B1, B2}
    /\ fetched = {B3}

\* C29: concurrent item tasks never write the same Record: when a full
\* crawl has ended, the Record of every task that extracted its page and
\* whose upsert succeeded is in the store as that task wrote it, whatever
\* the order in which the tasks completed.
C29_NoWriteContention ==
    (mode = "crawl" /\ pc = "done") =>
        \A u \in ItemUrls :
            (outcome[u] = "extracted" /\ store_error[u] = "none") =>
                NowBook(u) \in books

\* C30: a full crawl started on a store left by earlier runs fetches only
\* URLs that have no Record and leaves every Record it found unchanged.
C30_RestartIdempotent ==
    (mode = "crawl" /\ pc # "start") =>
        /\ fetched \cap existing_urls = {}
        /\ InitialStore \subseteq books

(***************************************************************************)
(* Both-or-neither, slots, progress, counts, order of the detect run       *)
(***************************************************************************)
\* the stored Record of u was brought to the values of the page in this run
UpdatedInRun(u) ==
    /\ outcome[u] = "differs"
    /\ book_writes[u] > 0
    /\ StoredEquals(u, NowBook(u))

\* C32: when a change-detection run has ended, a known Record has
\* field-level events from the run if and only if its stored fields and
\* fingerprint were updated to the new values in the run, also when a store
\* call failed.
C32_LogAndUpdateTogether ==
    (mode = "detect" /\ pc = "done") =>
        \A u \in SourceUrls(known_books) :
            logged[u] # EmptyBag <=> UpdatedInRun(u)

\* C33: slots held plus slots free is the admission limit; a slot is held
\* only by a caller whose HTTP attempt is in progress, so none is held by a
\* caller that waits for a slot, waits in backoff, or has its result; when
\* no attempt is in progress every slot is free.
C33_SlotsConserved ==
    /\ semaphore \in 0..Concurrency
    /\ semaphore + Cardinality(InFlight) = Concurrency
    /\ (\A c \in Callers : fst[c] # "get") => semaphore = Concurrency
    /\ \A c \in Callers :
          (fst[c] = "backoff" /\ \A d \in Callers \ {c} : fst[d] # "get") =>
              semaphore = Concurrency

\* a task waits in backoff while another holds a slot, and one slot is free
C33_Witness ==
    \E c \in ItemUrls, d \in ItemUrls :
        /\ fst[c] = "backoff" /\ fst[d] = "get"
        /\ semaphore = Concurrency - 1

\* a call of fetch_page by c is in progress
Pending(c) == fst[c] \in {"acquire", "get", "backoff"}

\* C34: a caller that has entered fetch_page gets its result: a call in
\* progress (waiting for a slot, in an attempt or in backoff) ends only by
\* returning a response or raising, no call stays in progress for ever, and
\* callers that wait for a slot never wait on each other alone.
C34_FetchResolves ==
    /\ \A c \in Callers : []<>(~Pending(c))
    /\ [][\A c \in Callers :
             (Pending(c) /\ ~Pending(c)') => fst'[c] \in {"returned", "raised"}]_vars
    /\ []((\E c \in Callers : fst[c] = "acquire") =>
             (semaphore > 0 \/ \E d \in Callers : fst[d] = "get"))

\* a task whose first attempt ended in a retryable status waits for a slot
\* while the pool is full
C34_Witness ==
    \E c \in ItemUrls :
        /\ fst[c] = "acquire" /\ attempt_number[c] = 2
        /\ semaphore = 0

\* the new URLs of the run
NewUrlsOfRun == book_urls \ SourceUrls(known_books)

\* C36: the new count is the number of Records the run inserted and the
\* updated count the number of known Records the run updated.
C36_CountsMatchStore ==
    (mode = "detect" /\ pc \in {"notify", "cleanup", "done"}) =>
        /\ num_new_books = Cardinality({u \in NewUrlsOfRun : book_writes[u] > 0})
        /\ num_updated_books =
               Cardinality({u \in SourceUrls(known_books) : UpdatedInRun(u)})

\* the entrypoint is inside its loop over the new URLs
InNewLoop ==
    \/ pc \in {"new_fetch", "new_insert", "new_log"}
    \/ pc = "new_books" /\ new_book_urls # {}

\* C37: in a change-detection run the new URLs are processed one at a time
\* and before any check starts, the known map is read before any insertion,
\* a Record inserted in the run is not checked in it, and no upc has both an
\* "added" event and a field-level event of the run.
C37_NewBeforeChecks ==
    mode = "detect" =>
        /\ InNewLoop => (Spawned = {} /\ \A u \in ItemUrls : fst[u] = "idle")
        /\ Spawned # {} => (new_book_urls = {} /\ pc \notin {"new_fetch", "new_insert", "new_log"})
        /\ ~StoreRead => (\A u \in ItemUrls : book_writes[u] = 0 /\ logged[u] = EmptyBag)
        /\ StoreRead => Spawned \subseteq SourceUrls(known_books)
        /\ StoreRead => \A u \in NewUrlsOfRun : tpc[u] = "none"
        /\ \A e1 \in BagToSet(change_log), e2 \in BagToSet(change_log) :
              e1.book_upc = e2.book_upc =>
                  (e1.field_changed = "book_status" <=> e2.field_changed = "book_status")

(***************************************************************************)
(* The two retry layers                                                    *)
(***************************************************************************)
\* C38: the transport retries a connection at most 3 times inside one
\* attempt; an attempt that ends without a response raises to the caller of
\* fetch_page in that same attempt, tenacity waits and retries only after a
\* retryable status, and the task whose fetch raised is logged and skipped.
C38_LayersDoNotCompound ==
    /\ [](\A c \in Callers :
            /\ connect_retries[c] \in 0..TransportRetries
            /\ connect_retries[c] > 0 => fst[c] \in {"get", "raised"}
            /\ (fst[c] = "raised" /\ connect_retries[c] > 0) => last_status[c] = 0
            /\ fst[c] = "backoff" => last_status[c] \in RETRYABLE_STATUS_CODES)
    /\ [][\A c \in Callers :
             (fst[c] = "get" /\ fst'[c] # "get" /\ last_status'[c] = 0) =>
                 /\ fst'[c] = "raised"
                 /\ attempt_number'[c] = attempt_number[c]]_vars
    /\ [](/\ pc # "crashed"
          /\ \A u \in ItemUrls :
                outcome[u] = "fetch_failed" =>
                    (tpc[u] = "done" /\ tres[u] = "None" /\ book_writes[u] = 0))

\* the transport has used up its retries in the first attempt of a task, the
\* failure has been raised and the task has skipped the URL
C38_Witness ==
    \E u \in ItemUrls, v \in ItemUrls :
        /\ fst[u] = "raised" /\ last_status[u] = 0
        /\ connect_retries[u] = TransportRetries /\ attempt_number[u] = 1
        /\ outcome[v] = "fetch_failed" /\ tpc[v] = "done"

(***************************************************************************)
(* API key verification                                                    *)
(***************************************************************************)
\* C39: get_api_key accepts the request if and only if the presented key
\* matches one of the configured hashes, wherever that hash stands in the
\* list and whatever empty or malformed entries stand beside it; otherwise
\* it rejects with 401.
C39_AcceptsIffSomeHashMatches ==
    parser_in.fn = "get_api_key" =>
        /\ parser_out.value \in {"accepted", "401"}
        /\ parser_out.value = "accepted" <=>
               \E i \in 1..Len(parser_in.hashes) :
                   /\ parser_in.hashes[i] \notin {"", "malformed"}
                   /\ checkpw(parser_in.key, parser_in.hashes[i])

(***************************************************************************)
(* Repeated runs, and the two discovery loops                              *)
(***************************************************************************)
\* C31: the change-detection run that follows a run in which nothing
\* failed, on the same site content, persists no event, writes no Record,
\* counts zero new and zero updated items and sends no notification.
C31_SecondRunQuiet ==
    run_no = 2 =>
        /\ \A u \in ItemUrls : logged[u] = EmptyBag /\ book_writes[u] = 0
        /\ num_new_books = 0
        /\ num_updated_books = 0
        /\ emails = << >>

\* C35: the two discovery loops, given the same outcome for their k-th
\* fetch, pop the same pages in the same order, and after the same number
\* of pages they hold the same queue and the same discovered-URL set; when
\* both have ended they have fetched the same pages and found the same set.
C35_SameTraversal ==
    /\ \A k \in 1..Len(crawl_pages) :
          k <= Len(detect_pages) => crawl_pages[k] = detect_pages[k]
    /\ Len(crawl_pages) = Len(detect_pages) =>
          /\ spider_crawl_queue = detect_crawl_queue
          /\ book_urls_to_crawl = all_current_book_urls
    /\ (spider_crawl_queue = << >> /\ detect_crawl_queue = << >>) =>
          /\ crawl_pages = detect_pages
          /\ book_urls_to_crawl = all_current_book_urls

\* both loops have ended after the two listing pages, the second reached
\* through its redirect, with the three items found
C35_Witness ==
    /\ spider_crawl_queue = << >> /\ detect_crawl_queue = << >>
    /\ crawl_pages = <<IndexUrl, Page2Url>>
    /\ detect_pages = <<IndexUrl, Page2Url>>
    /\ all_current_book_urls = {B1, B2, B3}
    /\ fetch_outcomes = <<200, 200>>

====
